---- MODULE Spec2Model ----
(***************************************************************************)
(* Presence registry, message store and delivery of the TSU Cares backend. *)
(* Two builds of the socket server are in the repository: the one with the *)
(* role map and the broadcast (src/unnamed/part_002) and the earlier one   *)
(* (src/server.js, lines 326-875).  The variable build says which one runs.*)
(* Spec is the running server with its accounts fixed; AuthSpec is the     *)
(* start of the process followed by the login and signup handlers.         *)
(***************************************************************************)
EXTENDS Integers, Sequences, FiniteSets, TLC

\* ------------------------------------------------------------- bounds
\* connections opened plus send requests received
MaxEvents == 3
MaxClock == 1
\* signup requests received
MaxSignups == 2

\* ------------------------------------------------------------- values
\* Ids arrive as strings (route parameters, query parameters, handshake
\* query); an absent parameter is undefined.
Undefined == "undefined"
IdStrings == {"1", "2"}
\* rows of the counselor and student tables (accounts are created elsewhere)
KnownCounselors == {1}
KnownStudents == {2}
\* the ids send requests name: counselor 1 and student 2 have accounts,
\* counselor 2 and student 1 have none
SendCounselorIds == {"1", "2"}
SendStudentIds == {"1", "2"}
\* an id parameter that is present but is no integer
MalformedIds == {"x"}
\* handshake queries: a counselor, a student, no identity, both identities
Handshakes ==
  {[counselorID |-> c, studentID |-> Undefined] : c \in IdStrings}
    \cup {[counselorID |-> Undefined, studentID |-> s] : s \in IdStrings}
    \cup {[counselorID |-> Undefined, studentID |-> Undefined],
          [counselorID |-> "1", studentID |-> "2"]}
\* message bodies as sequences of characters: "" and " a"
Texts == {<<>>, <<" ", "a">>}
Builds == {"typed", "plain"}
SendEndpoints == {"student", "counselor", "studentMessages"}
NoSocket == 0

\* parseInt of an id string
ParseInt(s) == CASE s = "1" -> 1 [] s = "2" -> 2

\* the number MySQL makes of a string parameter that it compares with, or
\* stores in, an INT column: a string with no leading digits counts as 0
SqlNumber(s) == CASE s = "1" -> 1 [] s = "2" -> 2 [] OTHER -> 0

\* String.prototype.trim
RECURSIVE TrimLeft(_)
TrimLeft(t) == IF t # <<>> /\ Head(t) = " " THEN TrimLeft(Tail(t)) ELSE t
RECURSIVE TrimRight(_)
TrimRight(t) ==
  IF t # <<>> /\ t[Len(t)] = " " THEN TrimRight(SubSeq(t, 1, Len(t) - 1)) ELSE t
Trim(t) == TrimRight(TrimLeft(t))

\* JavaScript truthiness: of an optional id parameter, of a message body
\* (a missing body and "" are both falsy; <<>> stands for either)
Truthy(v) == v # Undefined

\* a test that takes every body for a text
TruthyText_Any(m) == TRUE

TruthyText(m) == m # <<>>

VARIABLES
  build,          \* which server file runs
  hasSenderType,  \* the messages table has a senderType column
  userSocketMap,  \* id string -> socket id
  userTypeMap,    \* id string -> "counselor" | "student"
  sockets,        \* socket id -> [counselorID, studentID, connected, alive]:
                  \* connected is the server's view, alive says the client
                  \* still reads what is written to it
  inbox,          \* socket id -> newMessage payloads the client received
  lastBroadcast,  \* the last getOnlineUsers emission, <<>> before the first
  messages,       \* rows of the messages table, in insertion order
  clock,          \* the time of the last clock reading (NOW(), new Date())
  nSends,         \* send requests received so far
  dbQueue,        \* commands queued on the one database connection
  response,       \* the answer a send handler gave in this step, else <<>>
  phase,          \* "starting", "connected", "listening" or "exited"
  db,             \* the database handle: Undefined until createConnection
  exitCode,       \* <<>> while the process runs, else <<code>>
  initLog,        \* the outcomes of the steps of initDatabase so far
  uniqueKeys,     \* the student table has unique keys on email and studentNo
  student,        \* rows of the student table, in insertion order
  signups,        \* the signup requests received: request, position, answer
  loginAnswer     \* the answer a login handler gave in this step, else <<>>

chatVars == <<build, hasSenderType, userSocketMap, userTypeMap, sockets, inbox,
              lastBroadcast, messages, clock, nSends, dbQueue, response>>

authVars == <<phase, db, exitCode, initLog, uniqueKeys, student, signups,
              loginAnswer>>

vars == <<build, hasSenderType, userSocketMap, userTypeMap, sockets, inbox,
          lastBroadcast, messages, clock, nSends, dbQueue, response,
          phase, db, exitCode, initLog, uniqueKeys, student, signups,
          loginAnswer>>

registryVars == <<userSocketMap, userTypeMap, sockets, lastBroadcast>>
storeVars == <<messages, nSends, dbQueue>>

\* ------------------------------------------------------------- registry
getReceiverSocketId(map, receiverID) ==
  IF receiverID \in DOMAIN map THEN map[receiverID] ELSE NoSocket

\* the property name JavaScript makes of a counselorID column value when it
\* indexes userSocketMap with it
IdKey(n) == CASE n = 1 -> "1" [] n = 2 -> "2"

\* isOnline: !!userSocketMap[counselor.counselorID]
IsOnline(map, counselorID) ==
  getReceiverSocketId(map, IdKey(counselorID)) # NoSocket

\* GET /api/student-messages/counselors and GET /api/counselors: the isOnline
\* flag of each counselor row the handler returns
CounselorsWithStatus(map) == [c \in KnownCounselors |-> IsOnline(map, c)]

\* userSocketMap[userID] = socket.id
MapSet(map, key, val) ==
  [k \in DOMAIN map \cup {key} |-> IF k = key THEN val ELSE map[k]]

\* a delete that removes nothing
MapDelete_Keep(map, key) == map

\* delete userSocketMap[userID]
MapDelete(map, key) == [k \in DOMAIN map \ {key} |-> map[k]]

\* const userID = counselorID || studentID
UserIDOf(counselorID, studentID) ==
  IF counselorID # Undefined THEN counselorID ELSE studentID

\* a handler that records every user as a student
RoleOf_Student(counselorID, studentID) == "student"

\* the role the connection handler records for userID
RoleOf(counselorID, studentID) ==
  IF counselorID # Undefined THEN "counselor" ELSE "student"

ConnectedSockets(socks) == {i \in DOMAIN socks : socks[i].connected}

\* the payload of getOnlineUsers
OnlineUsersPayload(b, socketMap, typeMap) ==
  IF b = "typed"
  THEN [counselors |-> {id \in DOMAIN socketMap :
                          id \in DOMAIN typeMap /\ typeMap[id] = "counselor"},
        students   |-> {id \in DOMAIN socketMap :
                          id \in DOMAIN typeMap /\ typeMap[id] = "student"},
        all        |-> DOMAIN socketMap]
  ELSE [all |-> DOMAIN socketMap]

\* a broadcast of the registry as it was before the handler changed it
Broadcast_Stale(b, socketMap, typeMap, socks) ==
  <<[payload |-> OnlineUsersPayload(b, userSocketMap, userTypeMap),
     to      |-> ConnectedSockets(socks)]>>

\* io.emit("getOnlineUsers", ...): every connected socket gets it
Broadcast(b, socketMap, typeMap, socks) ==
  <<[payload |-> OnlineUsersPayload(b, socketMap, typeMap),
     to      |-> ConnectedSockets(socks)]>>

\* a registry that keeps the first socket of a user id
RegisterSocket_KeepFirst(map, userID, sid) ==
  IF userID # Undefined /\ userID \notin DOMAIN map
  THEN MapSet(map, userID, sid) ELSE map

\* the registry after the connection handler ran for socket sid
RegisterSocket(map, userID, sid) ==
  IF userID # Undefined THEN MapSet(map, userID, sid) ELSE map

\* a handler that records the role of counselors only
RegisterType_CounselorOnly(b, map, counselorID, studentID) ==
  IF b = "typed" /\ counselorID # Undefined
  THEN MapSet(map, counselorID, "counselor")
  ELSE map

\* userTypeMap after the connection handler ran
RegisterType(b, map, counselorID, studentID) ==
  IF b = "typed" /\ UserIDOf(counselorID, studentID) # Undefined
  THEN MapSet(map, UserIDOf(counselorID, studentID),
              RoleOf(counselorID, studentID))
  ELSE map

\* a disconnect handler that empties the registry when its id has no entry
UnregisterSocket_Clear(map, userID) ==
  IF userID # Undefined /\ userID \notin DOMAIN map THEN <<>>
  ELSE IF userID # Undefined THEN MapDelete(map, userID) ELSE map

\* the registry after the disconnect handler of a socket with this userID
UnregisterSocket(map, userID) ==
  IF userID # Undefined THEN MapDelete(map, userID) ELSE map

\* io.on("connection"): a client connects with its handshake query
Connect(counselorID, studentID) ==
  LET sid == Len(sockets) + 1
      userID == UserIDOf(counselorID, studentID)
      socks == Append(sockets, [counselorID |-> counselorID,
                                studentID |-> studentID,
                                connected |-> TRUE,
                                alive |-> TRUE])
      smap == RegisterSocket(userSocketMap, userID, sid)
      tmap == RegisterType(build, userTypeMap, counselorID, studentID)
  IN /\ Len(sockets) + nSends < MaxEvents
     /\ sockets' = socks
     /\ inbox' = Append(inbox, <<>>)
     /\ userSocketMap' = smap
     /\ userTypeMap' = tmap
     /\ lastBroadcast' = Broadcast(build, smap, tmap, socks)
     /\ response' = <<>>
     /\ UNCHANGED <<authVars, build, hasSenderType, clock, storeVars>>

\* a disconnect handler that also deletes the stored messages
Disconnect_Purge(sid) ==
  LET userID == UserIDOf(sockets[sid].counselorID, sockets[sid].studentID)
      socks == [sockets EXCEPT ![sid].connected = FALSE, ![sid].alive = FALSE]
      smap == UnregisterSocket(userSocketMap, userID)
      tmap == IF build = "typed" THEN UnregisterSocket(userTypeMap, userID)
              ELSE userTypeMap
  IN /\ sockets[sid].connected
     /\ sockets' = socks
     /\ userSocketMap' = smap
     /\ userTypeMap' = tmap
     /\ lastBroadcast' = IF userID # Undefined
                         THEN Broadcast(build, smap, tmap, socks)
                         ELSE lastBroadcast
     /\ response' = <<>>
     /\ messages' = <<>>
     /\ UNCHANGED <<authVars, build, hasSenderType, clock, inbox, nSends, dbQueue>>

\* socket.on("disconnect"): the socket has left before the handler runs
Disconnect(sid) ==
  LET userID == UserIDOf(sockets[sid].counselorID, sockets[sid].studentID)
      socks == [sockets EXCEPT ![sid].connected = FALSE, ![sid].alive = FALSE]
      smap == UnregisterSocket(userSocketMap, userID)
      tmap == IF build = "typed" THEN UnregisterSocket(userTypeMap, userID)
              ELSE userTypeMap
  IN /\ sockets[sid].connected
     /\ sockets' = socks
     /\ userSocketMap' = smap
     /\ userTypeMap' = tmap
     /\ lastBroadcast' = IF userID # Undefined
                         THEN Broadcast(build, smap, tmap, socks)
                         ELSE lastBroadcast
     /\ response' = <<>>
     /\ UNCHANGED <<authVars, build, hasSenderType, clock, inbox, storeVars>>

\* the client of an open socket goes away (network loss, killed app); the
\* server has not noticed yet, so no handler runs and the registry stays
ClientLost(sid) ==
  /\ sockets[sid].connected
  /\ sockets[sid].alive
  /\ sockets' = [sockets EXCEPT ![sid].alive = FALSE]
  /\ response' = <<>>
  /\ UNCHANGED <<authVars, build, hasSenderType, userSocketMap, userTypeMap,
                 lastBroadcast, clock, inbox, storeVars>>

\* ------------------------------------------------------------- store
\* the counselor / student existence SELECT of a send endpoint
AccountExists(endpoint, counselorId, studentId) ==
  IF endpoint = "student" THEN SqlNumber(counselorId) \in KnownCounselors
  ELSE SqlNumber(studentId) \in KnownStudents

\* the 400 answers of a send endpoint: TRUE when the request is refused
SendRefused(endpoint, counselorId, studentId, message) ==
  CASE endpoint = "student" -> ~Truthy(studentId) \/ ~TruthyText(message)
    [] endpoint = "counselor" -> ~Truthy(counselorId) \/ ~TruthyText(message)
    [] endpoint = "studentMessages" ->
         ~Truthy(studentId) \/ ~TruthyText(message) \/ Trim(message) = <<>>

\* an INSERT that binds the text as submitted on every endpoint
InsertText_NoTrim(endpoint, message) == message

\* the text bound to the INSERT
InsertText(endpoint, message) ==
  IF endpoint = "studentMessages" THEN Trim(message) ELSE message

\* the senderType literal of the endpoint
SenderTypeOf(endpoint) == IF endpoint = "counselor" THEN "counselor" ELSE "student"

\* the first INSERT of the typed build names the senderType column
NamesSenderType(b, kind) == b = "typed" /\ kind = "insert"

\* an INSERT that binds the two ids in the wrong order
InsertedRow_Swapped(rows, now, req, withSenderType) ==
  [messageID   |-> Len(rows) + 1,
   counselorID |-> SqlNumber(req.studentId),
   studentID   |-> SqlNumber(req.counselorId),
   text        |-> InsertText(req.endpoint, req.message),
   senderType  |-> IF withSenderType THEN SenderTypeOf(req.endpoint) ELSE "NULL",
   timestamp   |-> now]

\* the row an INSERT adds: AUTO_INCREMENT id, NOW()
InsertedRow(rows, now, req, withSenderType) ==
  [messageID   |-> Len(rows) + 1,
   counselorID |-> SqlNumber(req.counselorId),
   studentID   |-> SqlNumber(req.studentId),
   text        |-> InsertText(req.endpoint, req.message),
   senderType  |-> IF withSenderType THEN SenderTypeOf(req.endpoint) ELSE "NULL",
   timestamp   |-> now]

\* an answer that tells whether the counselor was online
NewMessage_Presence(insertId, now, req) ==
  [messageID   |-> insertId,
   counselorID |-> ParseInt(req.counselorId),
   studentID   |-> ParseInt(req.studentId),
   text        |-> InsertText(req.endpoint, req.message),
   timestamp   |-> now,
   senderType  |-> IF req.counselorId \in DOMAIN userSocketMap
                   THEN SenderTypeOf(req.endpoint) ELSE "offline"]

\* const newMessage = {...}
NewMessage(insertId, now, req) ==
  [messageID   |-> insertId,
   counselorID |-> ParseInt(req.counselorId),
   studentID   |-> ParseInt(req.studentId),
   text        |-> InsertText(req.endpoint, req.message),
   timestamp   |-> now,
   senderType  |-> SenderTypeOf(req.endpoint)]

Response(req, status, data) == <<[req |-> req, status |-> status, data |-> data]>>

\* ------------------------------------------------------------- delivery
\* io.to(socketId).emit: the room of a socket that has left is empty
ToRoom(socks, sid) ==
  IF sid # NoSocket /\ sid \in DOMAIN socks /\ socks[sid].connected
  THEN <<sid>> ELSE <<>>

\* the sockets of a set, in ascending order
RECURSIVE InOrder(_)
InOrder(S) ==
  IF S = {} THEN <<>>
  ELSE LET m == CHOOSE x \in S : \A y \in S : x <= y
       IN <<m>> \o InOrder(S \ {m})

\* io.emit("newMessage", ...) of the typed build
ToAll(b, socks) == IF b = "typed" THEN InOrder(ConnectedSockets(socks)) ELSE <<>>

\* the sockets the send handler emits newMessage to, one entry per emission
EmitTargets(b, socketMap, socks, counselorId, studentId) ==
  ToRoom(socks, getReceiverSocketId(socketMap, counselorId))
    \o ToRoom(socks, getReceiverSocketId(socketMap, studentId))
    \o ToAll(b, socks)

\* a transport that hands the client the newest packet first
RECURSIVE Deliver_NewestFirst(_, _, _, _)
Deliver_NewestFirst(inb, socks, targets, payload) ==
  IF targets = <<>> THEN inb
  ELSE Deliver_NewestFirst(IF socks[Head(targets)].alive
                           THEN [inb EXCEPT ![Head(targets)] = <<payload>> \o @]
                           ELSE inb,
                           socks, Tail(targets), payload)

\* the packets written to the target sockets, each socket receiving them in
\* the order they were written; a client that has gone away receives none of
\* them, and the write raises nothing
RECURSIVE Deliver(_, _, _, _)
Deliver(inb, socks, targets, payload) ==
  IF targets = <<>> THEN inb
  ELSE Deliver(IF socks[Head(targets)].alive
               THEN [inb EXCEPT ![Head(targets)] = Append(@, payload)]
               ELSE inb,
               socks, Tail(targets), payload)

\* a handler that answers after the emits, with an error when a target
\* socket has no client behind it
DispatchStatus_Delivery(socks, targets) ==
  IF \A i \in DOMAIN targets : socks[targets[i]].alive THEN 200 ELSE 500

\* res.json({success: true, data: newMessage}) runs before the emits and
\* sets no status: the answer is 200 whatever becomes of the emits
DispatchStatus(socks, targets) == 200

\* ------------------------------------------------------------- send
\* a POST arrives: the handler runs up to its first await
SendStart(endpoint, counselorId, studentId, message) ==
  LET req == [endpoint |-> endpoint, counselorId |-> counselorId,
              studentId |-> studentId, message |-> message]
  IN /\ Len(sockets) + nSends < MaxEvents
     /\ endpoint = "studentMessages" => build = "typed"
     /\ endpoint = "counselor" => studentId # Undefined
     /\ endpoint # "counselor" => counselorId # Undefined
     /\ nSends' = nSends + 1
     /\ IF SendRefused(endpoint, counselorId, studentId, message)
        THEN /\ response' = Response(req, 400, Undefined)
             /\ UNCHANGED dbQueue
        ELSE /\ dbQueue' = Append(dbQueue,
                 [kind |-> IF endpoint = "studentMessages" THEN "insert"
                           ELSE "check",
                  req |-> req])
             /\ response' = <<>>
     /\ UNCHANGED <<authVars, build, hasSenderType, registryVars, inbox, messages, clock>>

\* the existence SELECT returns and the handler resumes
DbCheck(fails) ==
  /\ dbQueue # <<>>
  /\ Head(dbQueue).kind = "check"
  /\ LET req == Head(dbQueue).req
     IN IF fails
        THEN /\ response' = Response(req, 500, Undefined)
             /\ dbQueue' = Tail(dbQueue)
        ELSE IF ~AccountExists(req.endpoint, req.counselorId, req.studentId)
        THEN /\ response' = Response(req, 404, Undefined)
             /\ dbQueue' = Tail(dbQueue)
        ELSE /\ dbQueue' = Append(Tail(dbQueue), [kind |-> "insert", req |-> req])
             /\ response' = <<>>
  /\ UNCHANGED <<authVars, build, hasSenderType, registryVars, inbox, messages, clock,
                 nSends>>

\* what MySQL answers to an INSERT: an unknown column is ER_BAD_FIELD_ERROR
DbResult(named, hasColumn, fails) ==
  IF fails THEN "error"
  ELSE IF named /\ ~hasColumn THEN "badField"
  ELSE "ok"

\* a handler that swallows the INSERT's error and goes on to answer and emit
AfterInsert_Swallow(b, kind, result) ==
  IF result = "badField" /\ b = "typed" /\ kind = "insert" THEN "retry"
  ELSE "dispatch"

\* an INSERT that leaves its row behind when it reports the unknown column
RowsAfter_Partial(rows, result, row) ==
  IF result \in {"ok", "badField"} THEN Append(rows, row) ELSE rows

\* the table after the INSERT: the statement adds its row or nothing
RowsAfter(rows, result, row) ==
  IF result = "ok" THEN Append(rows, row) ELSE rows

\* the try/catch around the INSERT: go on to answer and emit, insert again
\* without the column, or leave through the outer catch
AfterInsert(b, kind, result) ==
  CASE result = "ok" -> "dispatch"
    [] result = "badField" /\ b = "typed" /\ kind = "insert" -> "retry"
    [] OTHER -> "fail"

\* MySQL executes the INSERT at the head of the connection's queue and the
\* handler resumes on its result: answer, then emit.  elapsed is the time
\* since the clock was last read, later the time between NOW() and new Date().
DbInsert(fails, elapsed, later) ==
  /\ dbQueue # <<>>
  /\ Head(dbQueue).kind \in {"insert", "retry"}
  /\ clock + elapsed + later <= MaxClock
  /\ LET req == Head(dbQueue).req
         kind == Head(dbQueue).kind
         named == NamesSenderType(build, kind)
         now == clock + elapsed
         result == DbResult(named, hasSenderType, fails)
         rows == RowsAfter(messages, result,
                           InsertedRow(messages, now, req, named))
         path == AfterInsert(build, kind, result)
         newMessage == NewMessage(Len(rows), now + later, req)
     IN /\ messages' = rows
        /\ CASE path = "dispatch" ->
                  /\ response' = Response(req,
                        DispatchStatus(sockets,
                                       EmitTargets(build, userSocketMap, sockets,
                                                   req.counselorId, req.studentId)),
                        newMessage)
                  /\ inbox' = Deliver(inbox, sockets,
                                      EmitTargets(build, userSocketMap, sockets,
                                                  req.counselorId, req.studentId),
                                      newMessage)
                  /\ dbQueue' = Tail(dbQueue)
             [] path = "retry" ->
                  /\ dbQueue' = Append(Tail(dbQueue),
                                       [kind |-> "retry", req |-> req])
                  /\ response' = <<>>
                  /\ UNCHANGED inbox
             [] path = "fail" ->
                  /\ response' = Response(req, 500, Undefined)
                  /\ dbQueue' = Tail(dbQueue)
                  /\ UNCHANGED inbox
  /\ clock' = clock + elapsed + later
  /\ UNCHANGED <<authVars, build, hasSenderType, registryVars, nSends>>

\* ------------------------------------------------------------- history
\* WHERE (counselorID = ? AND studentID = ?)
Matching(rows, counselorId, studentId) ==
  {i \in DOMAIN rows : /\ rows[i].counselorID = SqlNumber(counselorId)
                       /\ rows[i].studentID = SqlNumber(studentId)}

\* ORDER BY timestamp ASC: rows of equal timestamp come in any order
OrderByTimestamp(rows, M) ==
  {f \in [1..Cardinality(M) -> M] :
     /\ \A i, j \in DOMAIN f : i # j => f[i] # f[j]
     /\ \A i, j \in DOMAIN f : i < j => rows[f[i]].timestamp <= rows[f[j]].timestamp}

\* GET /api/messages/:counselorId and GET /api/student-messages/:counselorId:
\* the answers the handler can give for the rows of the table
History(rows, counselorId, studentId, fails) ==
  IF ~Truthy(studentId) THEN {[status |-> 400, data |-> <<>>]}
  ELSE IF fails THEN {[status |-> 500, data |-> <<>>]}
  ELSE {[status |-> 200, data |-> [i \in DOMAIN f |-> rows[f[i]]]] :
          f \in OrderByTimestamp(rows, Matching(rows, counselorId, studentId))}

\* ------------------------------------------------------------- start
\* startServer: server.listen runs once await initDatabase() has returned;
\* the catch of initDatabase ends the process with process.exit(1)
StartPhase_ListenAnyway(initResult) == "listening"

StartPhase(initResult) == IF initResult = "ok" THEN "listening" ELSE "exited"

\* db = await mysql.createConnection(dbConfig)
CreateConnection(ok) ==
  /\ phase = "starting"
  /\ IF ok
     THEN /\ db' = "connection"
          /\ phase' = "connected"
          /\ initLog' = Append(initLog, "connected")
          /\ UNCHANGED exitCode
     ELSE /\ phase' = StartPhase("connectFailed")
          /\ exitCode' = <<1>>
          /\ initLog' = Append(initLog, "connectFailed")
          /\ UNCHANGED db
  /\ loginAnswer' = <<>>
  /\ UNCHANGED <<chatVars, uniqueKeys, student, signups>>

\* SHOW TABLES LIKE 'student': the table is there, is not there, or the
\* query fails
VerifyTable(result) ==
  /\ phase = "connected"
  /\ initLog' = Append(initLog, result)
  /\ phase' = StartPhase(IF result = "tableFound" THEN "ok" ELSE result)
  /\ exitCode' = IF result = "tableFound" THEN exitCode ELSE <<1>>
  /\ loginAnswer' = <<>>
  /\ UNCHANGED <<chatVars, db, uniqueKeys, student, signups>>

\* ------------------------------------------------------------- accounts
Emails == {"a@tsu", "b@tsu"}
\* the emails logins name: those, and one that no signup names
LoginEmails == Emails \cup {"c@tsu"}
Passwords == {"p", "q"}
Salts == {"s1", "s2"}
\* the colleges a counselor is assigned to (assignedCollege)
AssignedCollege == [c \in KnownCounselors |-> {"CCS"}]

\* bcrypt.hash(password, saltRounds): the salt is drawn by the library and
\* kept in the hash
BcryptHash(password, salt) == [salt |-> salt, digest |-> <<salt, password>>]

\* a comparison that takes every password
BcryptCompare_Any(password, hash) == TRUE

\* bcrypt.compare(password, user.password)
BcryptCompare(password, hash) == hash = BcryptHash(password, hash.salt)

\* the account that exists before the process starts: student 2
InitialStudents ==
  <<[studentID |-> 2, email |-> "a@tsu", studentNo |-> 1,
     password |-> BcryptHash("p", "s1"), college |-> "CCS", counselorID |-> 1]>>

\* the signup bodies: complete ones, one without email, one whose studentNo
\* is no positive integer, one of a college no counselor is assigned to
SignupRequests ==
  {[email |-> e, studentNo |-> n, password |-> "q", college |-> "CCS"] :
     e \in Emails, n \in {1, 2}}
    \cup {[email |-> Undefined, studentNo |-> 2, password |-> "q", college |-> "CCS"],
          [email |-> "b@tsu", studentNo |-> -1, password |-> "q", college |-> "CCS"],
          [email |-> "b@tsu", studentNo |-> 2, password |-> "q", college |-> "COE"]}

\* const { password: _, ...studentWithoutPassword } = user
WithoutPassword(row) == [f \in DOMAIN row \ {"password"} |-> row[f]]

\* SELECT * FROM student WHERE email = ?
ByEmail(rows, email) == SelectSeq(rows, LAMBDA r : r.email = email)

\* POST /api/auth/login: the answer for the rows of the table
LoginAnswer(rows, email, password, fails) ==
  IF ~Truthy(email) \/ ~Truthy(password)
  THEN [status |-> 400, message |-> "Email and password are required",
        data |-> <<>>]
  ELSE IF fails
  THEN [status |-> 500, message |-> "Internal server error", data |-> <<>>]
  ELSE IF ByEmail(rows, email) = <<>>
  THEN [status |-> 401, message |-> "Invalid email or password", data |-> <<>>]
  ELSE IF ~BcryptCompare(password, ByEmail(rows, email)[1].password)
  THEN [status |-> 401, message |-> "Invalid email or password", data |-> <<>>]
  ELSE [status |-> 200, message |-> "Login successful",
        data |-> <<WithoutPassword(ByEmail(rows, email)[1])>>]

Login(email, password, fails) ==
  /\ phase = "listening"
  /\ loginAnswer' =
       <<[email |-> email, password |-> password,
          answer |-> LoginAnswer(student, email, password,
                                 fails \/ db = Undefined)]>>
  /\ UNCHANGED <<chatVars, phase, db, exitCode, initLog, uniqueKeys, student,
                 signups>>

\* the 400 answers of signup: a required field is missing, or studentNo is
\* no positive integer
SignupRefused(req) == ~Truthy(req.email) \/ req.studentNo <= 0

\* SELECT studentID FROM student WHERE email = ? OR studentNo = ?
ExistingStudents(rows, email, studentNo) ==
  {r \in DOMAIN rows : rows[r].email = email \/ rows[r].studentNo = studentNo}

\* the counselor of the college: an exact match, then assignedCollege LIKE
\* %college%, then counselor 1
AssignCounselor(college) ==
  IF \E c \in KnownCounselors : AssignedCollege[c] = {college}
  THEN CHOOSE c \in KnownCounselors : AssignedCollege[c] = {college}
  ELSE IF \E c \in KnownCounselors : college \in AssignedCollege[c]
  THEN CHOOSE c \in KnownCounselors : college \in AssignedCollege[c]
  ELSE 1

\* AUTO_INCREMENT of studentID
NextStudentID(rows) ==
  1 + (CHOOSE m \in {0} \cup {rows[r].studentID : r \in DOMAIN rows} :
         \A r \in DOMAIN rows : rows[r].studentID <= m)

\* POST /api/auth/signup arrives: the handler runs up to its first await
SignupStart(req) ==
  /\ phase = "listening"
  /\ Len(signups) < MaxSignups
  /\ signups' = Append(signups,
       IF SignupRefused(req)
       THEN [req |-> req, pc |-> "done", status |-> 400, error |-> "none"]
       ELSE [req |-> req, pc |-> "check", status |-> 0, error |-> "none"])
  /\ loginAnswer' = <<>>
  /\ UNCHANGED <<chatVars, phase, db, exitCode, initLog, uniqueKeys, student>>

\* the SELECT for an existing student returns and the handler resumes
SignupCheck(i, fails) ==
  /\ signups[i].pc = "check"
  /\ signups' =
       IF fails \/ db = Undefined
       THEN [signups EXCEPT ![i].pc = "done", ![i].status = 500,
                            ![i].error = "db"]
       ELSE IF ExistingStudents(student, signups[i].req.email,
                                signups[i].req.studentNo) # {}
       THEN [signups EXCEPT ![i].pc = "done", ![i].status = 409]
       ELSE [signups EXCEPT ![i].pc = "insert"]
  /\ loginAnswer' = <<>>
  /\ UNCHANGED <<chatVars, phase, db, exitCode, initLog, uniqueKeys, student>>

\* what MySQL answers to the INSERT INTO student: a duplicate of a unique key
\* is ER_DUP_ENTRY
StudentInsertResult(rows, req, unique, fails) ==
  IF fails THEN "db"
  ELSE IF unique /\ ExistingStudents(rows, req.email, req.studentNo) # {}
  THEN "ER_DUP_ENTRY"
  ELSE "none"

\* the rest of the signup handler: hash, counselor of the college, INSERT,
\* SELECT of the created row, answer 201; every error is answered 500.
\* failsAt says whether a query fails before the INSERT took effect or the
\* SELECT after it does.
SignupInsert(i, failsAt, salt) ==
  /\ signups[i].pc = "insert"
  /\ LET req == signups[i].req
         error == StudentInsertResult(student, req, uniqueKeys,
                                      failsAt = "insert" \/ db = Undefined)
         row == [studentID |-> NextStudentID(student),
                 email |-> req.email,
                 studentNo |-> req.studentNo,
                 password |-> BcryptHash(req.password, salt),
                 college |-> req.college,
                 counselorID |-> AssignCounselor(req.college)]
     IN /\ student' = IF error = "none" THEN Append(student, row) ELSE student
        /\ signups' =
             IF error # "none"
             THEN [signups EXCEPT ![i].pc = "done", ![i].status = 500,
                                  ![i].error = error]
             ELSE IF failsAt = "readback"
             THEN [signups EXCEPT ![i].pc = "done", ![i].status = 500,
                                  ![i].error = "db"]
             ELSE [signups EXCEPT ![i].pc = "done", ![i].status = 201]
  /\ loginAnswer' = <<>>
  /\ UNCHANGED <<chatVars, phase, db, exitCode, initLog, uniqueKeys>>

Init ==
  /\ phase = "listening"
  /\ db = "connection"
  /\ exitCode = <<>>
  /\ initLog = <<"connected", "tableFound">>
  /\ uniqueKeys = FALSE
  /\ student = InitialStudents
  /\ signups = <<>>
  /\ loginAnswer = <<>>
  /\ build \in Builds
  /\ hasSenderType \in (IF build = "typed" THEN BOOLEAN ELSE {FALSE})
  /\ userSocketMap = <<>>
  /\ userTypeMap = <<>>
  /\ sockets = <<>>
  /\ inbox = <<>>
  /\ lastBroadcast = <<>>
  /\ messages = <<>>
  /\ clock = 0
  /\ nSends = 0
  /\ dbQueue = <<>>
  /\ response = <<>>

Next ==
  \/ \E h \in Handshakes : Connect(h.counselorID, h.studentID)
  \/ \E sid \in DOMAIN sockets : Disconnect(sid)
  \/ \E sid \in DOMAIN sockets : ClientLost(sid)
  \/ \E e \in SendEndpoints, c \in SendCounselorIds \cup {Undefined},
        s \in SendStudentIds \cup {Undefined}, m \in Texts :
       SendStart(e, c, s, m)
  \/ \E fails \in BOOLEAN : DbCheck(fails)
  \/ \E fails \in BOOLEAN, elapsed \in 0..MaxClock, later \in 0..MaxClock :
       DbInsert(fails, elapsed, later)

Spec == Init /\ [][Next]_vars

\* the process from its start, with the login and signup handlers
AuthInit ==
  /\ phase = "starting"
  /\ db = Undefined
  /\ exitCode = <<>>
  /\ initLog = <<>>
  /\ uniqueKeys \in BOOLEAN
  /\ student = InitialStudents
  /\ signups = <<>>
  /\ loginAnswer = <<>>
  /\ build = "typed"
  /\ hasSenderType = TRUE
  /\ userSocketMap = <<>>
  /\ userTypeMap = <<>>
  /\ sockets = <<>>
  /\ inbox = <<>>
  /\ lastBroadcast = <<>>
  /\ messages = <<>>
  /\ clock = 0
  /\ nSends = 0
  /\ dbQueue = <<>>
  /\ response = <<>>

AuthNext ==
  \/ \E ok \in BOOLEAN : CreateConnection(ok)
  \/ \E result \in {"tableFound", "tableMissing", "queryFailed"} :
       VerifyTable(result)
  \/ \E e \in LoginEmails \cup {Undefined}, pw \in Passwords \cup {Undefined},
        fails \in BOOLEAN : Login(e, pw, fails)
  \/ \E req \in SignupRequests : SignupStart(req)
  \/ \E i \in DOMAIN signups : \E fails \in BOOLEAN : SignupCheck(i, fails)
  \/ \E i \in DOMAIN signups :
       \E failsAt \in {"none", "insert", "readback"}, salt \in Salts :
         SignupInsert(i, failsAt, salt)

AuthSpec == AuthInit /\ [][AuthNext]_vars

\* ------------------------------------------------------------- vocabulary
SocketUserID(sock) == UserIDOf(sock.counselorID, sock.studentID)

IsCounselorSocket(sock, id) ==
  /\ sock.counselorID # Undefined
  /\ sock.studentID = Undefined
  /\ ParseInt(sock.counselorID) = id

IsStudentSocket(sock, id) ==
  /\ sock.studentID # Undefined
  /\ sock.counselorID = Undefined
  /\ ParseInt(sock.studentID) = id

SocketRole(sock) ==
  IF sock.counselorID # Undefined THEN "counselor"
  ELSE IF sock.studentID # Undefined THEN "student"
  ELSE "none"

\* socket j was opened after socket i by the same principal
Reregistered(i, j) ==
  /\ j > i
  /\ SocketUserID(sockets[i]) # Undefined
  /\ sockets[j].counselorID = sockets[i].counselorID
  /\ sockets[j].studentID = sockets[i].studentID

\* socket j was opened after socket i and names an identity socket i names
LaterClaim(i, j) ==
  /\ j > i
  /\ \/ /\ sockets[i].counselorID # Undefined
        /\ sockets[j].counselorID = sockets[i].counselorID
     \/ /\ sockets[i].studentID # Undefined
        /\ sockets[j].studentID = sockets[i].studentID

\* some open socket received a newMessage push in this step
SomePush == \E i \in DOMAIN inbox : inbox'[i] # inbox[i]

\* the sockets that connect or disconnect in this step
ActedSockets ==
  {k \in DOMAIN sockets' :
     \/ k \notin DOMAIN sockets
     \/ (sockets[k].connected /\ ~sockets'[k].connected)}

Answered(status) == response # <<>> /\ response[1].status = status

RecipientKey(req) ==
  IF req.endpoint = "counselor" THEN req.studentId ELSE req.counselorId

Pushed(i, m) == \E k \in DOMAIN inbox[i] : inbox[i][k] = m

HistoryPairs == SendCounselorIds \X SendStudentIds

\* the sockets opened, and the sockets closed, in this step
NewSockets == DOMAIN sockets' \ DOMAIN sockets
ClosedSockets ==
  {i \in DOMAIN sockets : sockets[i].connected /\ ~sockets'[i].connected}

BothIdentities(sock) ==
  sock.counselorID # Undefined /\ sock.studentID # Undefined
NoIdentity(sock) ==
  sock.counselorID = Undefined /\ sock.studentID = Undefined

\* ------------------------------------------------------------- claims
\* C1: a newMessage push is received only by connections of the message's
\* recipient or of its sender: every payload in a socket's inbox names the
\* socket's own counselor id or its own student id.
C1_PushOnlyToParties ==
  \A i \in DOMAIN inbox : \A k \in DOMAIN inbox[i] :
    \/ /\ sockets[i].counselorID # Undefined
       /\ ParseInt(sockets[i].counselorID) = inbox[i][k].counselorID
    \/ /\ sockets[i].studentID # Undefined
       /\ ParseInt(sockets[i].studentID) = inbox[i][k].studentID

\* C2: when a principal has registered again with handle H2, the disconnect
\* of its earlier handle H1 leaves the registry entry for H2 in place and the
\* principal stays in the online list.
C2_StaleDisconnectKeepsEntry ==
  [][\A i \in DOMAIN sockets : \A u \in DOMAIN userSocketMap :
       (/\ sockets[i].connected
        /\ ~sockets'[i].connected
        /\ userSocketMap[u] # i
        /\ Reregistered(i, userSocketMap[u])
        /\ sockets[userSocketMap[u]].connected)
       => /\ getReceiverSocketId(userSocketMap', u) = userSocketMap[u]
          /\ u \in lastBroadcast'[1].payload.all]_vars

\* C3: a counselor and a student with the same numeric id are distinct
\* principals: the connect or disconnect of a socket of one role leaves the
\* registry entry of a socket of the other role untouched.
C3_RolesDoNotCollide ==
  [][\A u \in DOMAIN userSocketMap : \A k \in ActedSockets :
       (/\ SocketRole(sockets'[k]) # "none"
        /\ SocketRole(sockets'[k]) # SocketRole(sockets[userSocketMap[u]]))
       => getReceiverSocketId(userSocketMap', u) = userSocketMap[u]]_vars

\* C4: when a send is answered with the stored message and the recipient has
\* a live current connection, that connection has received the push.
C4_PushReachesRecipient ==
  Answered(200) =>
    LET m == response[1].data
        toStudent == response[1].req.endpoint = "counselor"
    IN \A i \in DOMAIN sockets :
         (/\ sockets[i].connected
          /\ sockets[i].alive
          /\ IF toStudent THEN IsStudentSocket(sockets[i], m.studentID)
             ELSE IsCounselorSocket(sockets[i], m.counselorID)
          /\ ~\E j \in DOMAIN sockets : LaterClaim(i, j))
         => Pushed(i, m)

\* C5: a newMessage push happens only in the step that commits the INSERT of
\* the message it carries, and an INSERT that fails ends the request with
\* status 500 and no push.
C5_DispatchAfterCommit ==
  [][/\ SomePush =>
          /\ Len(messages') = Len(messages) + 1
          /\ \A i \in DOMAIN inbox : \A k \in DOMAIN inbox'[i] :
               k > Len(inbox[i]) =>
                 LET row == messages'[Len(messages')]
                     p == inbox'[i][k]
                 IN /\ p.messageID = row.messageID
                    /\ p.counselorID = row.counselorID
                    /\ p.studentID = row.studentID
                    /\ p.text = row.text
     /\ (/\ dbQueue # <<>>
         /\ Head(dbQueue).kind \in {"insert", "retry"}
         /\ Len(dbQueue') < Len(dbQueue)
         /\ messages' = messages)
        => /\ response' # <<>>
           /\ response'[1].status = 500
           /\ response'[1].req = Head(dbQueue).req
           /\ ~SomePush]_vars

\* a failed INSERT was answered 500 while the recipient was connected
C5_Witness ==
  /\ Answered(500)
  /\ response[1].req.endpoint = "studentMessages"
  /\ RecipientKey(response[1].req) \in DOMAIN userSocketMap
  /\ sockets[userSocketMap[RecipientKey(response[1].req)]].connected

\* C6: after a send is answered, History for the pair contains the message
\* with text identical to the text submitted, on all three send endpoints.
C6_TextIdentical ==
  Answered(200) =>
    \A h \in History(messages, response[1].req.counselorId,
                     response[1].req.studentId, FALSE) :
      \E k \in DOMAIN h.data :
        /\ h.data[k].messageID = response[1].data.messageID
        /\ h.data[k].text = response[1].req.message

\* C6 amended: the text History returns is the text submitted on the two
\* /api/messages endpoints and the text submitted with leading and trailing
\* whitespace removed on /api/student-messages.
C6_TextIdenticalOrTrimmed ==
  Answered(200) =>
    \A h \in History(messages, response[1].req.counselorId,
                     response[1].req.studentId, FALSE) :
      \E k \in DOMAIN h.data :
        /\ h.data[k].messageID = response[1].data.messageID
        /\ h.data[k].text =
             IF response[1].req.endpoint = "studentMessages"
             THEN Trim(response[1].req.message)
             ELSE response[1].req.message

\* a padded text was sent on /api/student-messages after the same text was
\* stored unchanged through /api/messages
C6_Witness ==
  /\ Answered(200)
  /\ response[1].req.endpoint = "studentMessages"
  /\ Trim(response[1].req.message) # response[1].req.message
  /\ \E r \in DOMAIN messages :
       /\ messages[r].text = response[1].req.message
       /\ messages[r].counselorID = response[1].data.counselorID

\* the step commits a message whose recipient has no registry entry
CommitsUnregistered ==
  /\ dbQueue # <<>>
  /\ Len(messages') > Len(messages)
  /\ RecipientKey(Head(dbQueue).req) \notin DOMAIN userSocketMap

\* the step answers with this status and the message it stored, and History
\* for the pair returns that row
AnswersStored(status) ==
  LET row == messages'[Len(messages')]
      req == Head(dbQueue).req
  IN /\ response' # <<>>
     /\ response'[1].status = status
     /\ response'[1].req = req
     /\ response'[1].data.messageID = row.messageID
     /\ response'[1].data.counselorID = row.counselorID
     /\ response'[1].data.studentID = row.studentID
     /\ response'[1].data.text = row.text
     /\ \A h \in History(messages', req.counselorId, req.studentId, FALSE) :
          \E k \in DOMAIN h.data : h.data[k] = row

\* stored rows are never changed or removed, and History returns every row
\* of the pair
RowsStay ==
  /\ \A r \in DOMAIN messages :
       r \in DOMAIN messages' /\ messages'[r] = messages[r]
  /\ \A p \in HistoryPairs :
       \A h \in History(messages', p[1], p[2], FALSE) :
         \A r \in Matching(messages', p[1], p[2]) :
           \E k \in DOMAIN h.data : h.data[k] = messages'[r]

C8_TiesById ==
  \A p \in HistoryPairs :
    \A h \in History(messages, p[1], p[2], FALSE) :
      \A i, j \in DOMAIN h.data :
        i < j =>
          \/ h.data[i].timestamp < h.data[j].timestamp
          \/ /\ h.data[i].timestamp = h.data[j].timestamp
             /\ h.data[i].messageID < h.data[j].messageID

\* C9: a registration makes Lookup of the principal return the new handle,
\* and the handle it replaces is the value of no entry afterwards.
C9_SecondRegistrationWins ==
  [][\A k \in DOMAIN sockets' \ DOMAIN sockets :
       LET u == SocketUserID(sockets'[k])
       IN u # Undefined =>
            /\ getReceiverSocketId(userSocketMap', u) = k
            /\ (u \in DOMAIN userSocketMap =>
                  \A key \in DOMAIN userSocketMap' :
                    userSocketMap'[key] # userSocketMap[u])]_vars

\* a principal registered twice, both sockets open, Lookup returns the second
C9_Witness ==
  \E i, j \in DOMAIN sockets :
    /\ Reregistered(i, j)
    /\ sockets[i].connected
    /\ sockets[j].connected
    /\ getReceiverSocketId(userSocketMap, SocketUserID(sockets[j])) = j

\* C10: a handle that a later registration of the same principal replaced
\* receives no newMessage push afterwards.
C10_NoPushToStaleHandle ==
  [][\A i \in DOMAIN sockets :
       (\E j \in DOMAIN sockets : Reregistered(i, j))
         => inbox'[i] = inbox[i]]_vars

\* C11: a handshake that carries both a studentID and a counselorID is
\* rejected: the socket map and the role map are unchanged by it and the
\* connection does not enter the connected state.
C11_BothIdentitiesRejected ==
  [][\A k \in NewSockets :
       BothIdentities(sockets'[k])
         => /\ userSocketMap' = userSocketMap
            /\ userTypeMap' = userTypeMap
            /\ ~sockets'[k].connected]_vars

\* C12: a handshake that carries neither id is rejected: the registry is
\* unchanged, the connection is not connected, and no presence broadcast and
\* no newMessage push is ever delivered to it.
C12_NoIdentityRejected ==
  [][/\ \A k \in NewSockets :
          NoIdentity(sockets'[k])
            => /\ userSocketMap' = userSocketMap
               /\ userTypeMap' = userTypeMap
               /\ ~sockets'[k].connected
               /\ k \notin lastBroadcast'[1].to
     /\ \A i \in DOMAIN sockets :
          NoIdentity(sockets[i])
            => /\ inbox'[i] = <<>>
               /\ lastBroadcast' # lastBroadcast => i \notin lastBroadcast'[1].to]_vars

\* the broadcast of this step carries the registry as the step leaves it and
\* goes to every socket connected after the step
BroadcastsRegistry ==
  /\ lastBroadcast' # <<>>
  /\ lastBroadcast'[1].payload.all = DOMAIN userSocketMap'
  /\ lastBroadcast'[1].to = ConnectedSockets(sockets')

\* C13: a connect that registers an id and a disconnect that unregisters one
\* broadcast getOnlineUsers in the same step, to all connected sockets, with
\* the registry content after the change: the connect broadcast contains the
\* new id, the disconnect broadcast does not contain the removed id.
C13_BroadcastAfterChange ==
  [][/\ DOMAIN userSocketMap' # DOMAIN userSocketMap => BroadcastsRegistry
     /\ \A k \in NewSockets :
          SocketUserID(sockets'[k]) # Undefined
            => /\ BroadcastsRegistry
               /\ SocketUserID(sockets'[k]) \in lastBroadcast'[1].payload.all
     /\ \A i \in ClosedSockets :
          SocketUserID(sockets[i]) # Undefined
            => /\ BroadcastsRegistry
               /\ SocketUserID(sockets[i]) \notin lastBroadcast'[1].payload.all]_vars

\* a user has disconnected; the last broadcast went to the sockets still
\* connected and lists the users still registered, not the one who left
C13_Witness ==
  /\ lastBroadcast # <<>>
  /\ lastBroadcast[1].to # {}
  /\ lastBroadcast[1].payload.all # {}
  /\ \E i \in DOMAIN sockets :
       /\ ~sockets[i].connected
       /\ SocketUserID(sockets[i]) # Undefined
       /\ SocketUserID(sockets[i]) \notin lastBroadcast[1].payload.all

\* C14: in the server of src/unnamed/part_002 the payload of every presence
\* broadcast is a consistent split by role: counselors and students are
\* disjoint, their union is all, all is the set of registered ids, and each
\* listed id belongs to a connection that registered in the listed role.
C14_SplitByRole ==
  (build = "typed" /\ lastBroadcast # <<>>) =>
    LET p == lastBroadcast[1].payload
    IN /\ p.counselors \cap p.students = {}
       /\ p.counselors \cup p.students = p.all
       /\ p.all = DOMAIN userSocketMap
       /\ \A id \in p.counselors :
            /\ sockets[userSocketMap[id]].connected
            /\ sockets[userSocketMap[id]].counselorID = id
       /\ \A id \in p.students :
            /\ sockets[userSocketMap[id]].connected
            /\ sockets[userSocketMap[id]].counselorID = Undefined
            /\ sockets[userSocketMap[id]].studentID = id

\* a broadcast listed a counselor and a student
C14_Witness ==
  /\ build = "typed"
  /\ lastBroadcast # <<>>
  /\ lastBroadcast[1].payload.counselors # {}
  /\ lastBroadcast[1].payload.students # {}

\* C15: the message a successful send returns is the stored record: id,
\* studentId, counselorId, senderRole, text and createdAt equal those of the
\* record History returns for it.
C15_ReturnsStoredRecord ==
  Answered(200) =>
    \A h \in History(messages, response[1].req.counselorId,
                     response[1].req.studentId, FALSE) :
      \E k \in DOMAIN h.data : h.data[k] = response[1].data

\* the request at the head of the database queue
HeadReq == Head(dbQueue).req

\* the step answers no request with anything but a client error, appends no
\* row and pushes nothing; an answer 500 (the database failed) is left aside
RefusedOrPending ==
  /\ messages' = messages
  /\ ~SomePush
  /\ (response' # <<>> /\ response'[1].status # 500)
       => response'[1].status \in {400, 404}

\* C16: on every send endpoint a send whose counselorId names no known
\* counselor is answered with a client error, appends nothing and pushes
\* nothing.
C16_UnknownCounselorRefused ==
  [][(dbQueue # <<>> /\ SqlNumber(HeadReq.counselorId) \notin KnownCounselors)
       => RefusedOrPending]_vars

\* C17: a send whose studentId names no known student is answered with a
\* client error and appends nothing, on student-initiated and on
\* counselor-initiated sends.
C17_UnknownStudentRefused ==
  [][(dbQueue # <<>> /\ SqlNumber(HeadReq.studentId) \notin KnownStudents)
       => RefusedOrPending]_vars

\* C18: a send with a missing or empty text is answered 400 and changes
\* nothing: no row, no push, the registry as it was; a request that goes on
\* to the database has a text, and every stored row has a non-empty text.
C18_EmptyTextRefused ==
  [][/\ nSends' = nSends + 1 =>
          \/ /\ response' # <<>>
             /\ response'[1].status = 400
             /\ UNCHANGED <<messages, inbox, registryVars, dbQueue>>
          \/ /\ response' = <<>>
             /\ Len(dbQueue') = Len(dbQueue) + 1
             /\ dbQueue'[Len(dbQueue')].req.message # <<>>
     /\ (response' # <<>> /\ response'[1].req.message = <<>>)
          => /\ response'[1].status = 400
             /\ messages' = messages
             /\ ~SomePush
     /\ \A r \in DOMAIN messages' : messages'[r].text # <<>>]_vars

\* a send with both ids and an empty text was answered 400 while a user was
\* registered and a message was stored
C18_Witness ==
  /\ Answered(400)
  /\ response[1].req.message = <<>>
  /\ response[1].req.counselorId # Undefined
  /\ response[1].req.studentId # Undefined
  /\ DOMAIN userSocketMap # {}
  /\ messages # <<>>

\* C19: a History request whose studentId or counselorId is present but is
\* no integer is answered with a client error.
C19_MalformedIdRefused ==
  \A x \in MalformedIds :
    /\ \A s \in SendStudentIds :
         \A h \in History(messages, x, s, FALSE) : h.status = 400
    /\ \A c \in SendCounselorIds :
         \A h \in History(messages, c, x, FALSE) : h.status = 400

C21_AnswerIndependentOfDispatch ==
  [][Len(messages') > Len(messages) =>
       /\ response' # <<>>
       /\ response'[1].status = 200
       /\ response'[1].req = HeadReq
       /\ response'[1].data =
            [messageID   |-> Len(messages'),
             counselorID |-> ParseInt(HeadReq.counselorId),
             studentID   |-> ParseInt(HeadReq.studentId),
             text        |-> InsertText(HeadReq.endpoint, HeadReq.message),
             timestamp   |-> clock',
             senderType  |-> SenderTypeOf(HeadReq.endpoint)]
       /\ \A i \in DOMAIN inbox : \A k \in DOMAIN inbox[i] :
            inbox[i][k].messageID # Len(messages')]_vars

\* a send was answered while the sockets of both parties were registered and
\* the recipient's received the push
C21_Witness ==
  /\ Answered(200)
  /\ response[1].req.counselorId \in DOMAIN userSocketMap
  /\ response[1].req.studentId \in DOMAIN userSocketMap
  /\ response[1].req.counselorId # response[1].req.studentId
  /\ Pushed(userSocketMap[RecipientKey(response[1].req)], response[1].data)

\* C22: a disconnect for a connection whose id has no registry entry (never
\* registered, or no longer) is a no-op: both maps stay exactly as they were.
C22_UnregisterAbsentIsNoOp ==
  [][\A i \in ClosedSockets :
       (\/ SocketUserID(sockets[i]) = Undefined
        \/ SocketUserID(sockets[i]) \notin DOMAIN userSocketMap)
         => /\ userSocketMap' = userSocketMap
            /\ userTypeMap' = userTypeMap]_vars

\* two sockets of one user id have both disconnected, the second of them
\* finding no entry, and another user is still registered
C22_Witness ==
  /\ DOMAIN userSocketMap # {}
  /\ \E i, j \in DOMAIN sockets :
       /\ i < j
       /\ ~sockets[i].connected
       /\ ~sockets[j].connected
       /\ SocketUserID(sockets[i]) # Undefined
       /\ SocketUserID(sockets[i]) = SocketUserID(sockets[j])

\* every socket so far carries exactly one identity
AllSingleIdentity ==
  \A j \in DOMAIN sockets :
    ~BothIdentities(sockets[j]) /\ ~NoIdentity(sockets[j])

SamePrincipal(i, j) ==
  /\ sockets[i].counselorID = sockets[j].counselorID
  /\ sockets[i].studentID = sockets[j].studentID

\* C23: whatever the interleaving of the connect and disconnect handlers of
\* distinct participants, no entry is lost: a connected participant whose
\* only socket this is finds its own handle in the registry.
C23_NeitherEntryLost ==
  AllSingleIdentity =>
    \A i \in DOMAIN sockets :
      (/\ sockets[i].connected
       /\ \A j \in DOMAIN sockets \ {i} : ~SamePrincipal(i, j))
        => getReceiverSocketId(userSocketMap, SocketUserID(sockets[i])) = i

\* C24: in the server of src/unnamed/part_002 the socket map and the role
\* map have the same key set in every state a handler can start in, so no
\* reader sees an id that is registered without a role or the reverse.
C24_MapsHaveSameKeys ==
  build = "typed" => DOMAIN userSocketMap = DOMAIN userTypeMap

\* a user is registered after another user's socket has disconnected
C24_Witness ==
  /\ build = "typed"
  /\ DOMAIN userSocketMap # {}
  /\ \E i \in DOMAIN sockets :
       ~sockets[i].connected /\ SocketUserID(sockets[i]) # Undefined

\* C25: append is atomic per send: a step that answers success has added
\* exactly one row, the one it answers with; a step that answers an error
\* has added none; rows appear in no other way, also when the INSERT with
\* senderType failed and was repeated without the column; so the table never
\* holds more rows than sends that are no longer queued.
C25_AppendAtomic ==
  [][/\ (response' # <<>> /\ response'[1].status = 200)
          => /\ Len(messages') = Len(messages) + 1
             /\ messages'[Len(messages')].messageID = response'[1].data.messageID
             /\ SubSeq(messages', 1, Len(messages)) = messages
     /\ (response' # <<>> /\ response'[1].status >= 400)
          => messages' = messages
     /\ messages' # messages
          => (response' # <<>> /\ response'[1].status = 200)
     /\ Len(messages') + Len(dbQueue') <= nSends']_vars

\* a send was answered with success after its first INSERT was refused for
\* the missing column
C25_Witness ==
  /\ Answered(200)
  /\ build = "typed"
  /\ ~hasSenderType
  /\ messages[Len(messages)].senderType = "NULL"
  /\ messages[Len(messages)].messageID = response[1].data.messageID

\* C26: every stored message records the role of its sender: History returns
\* the message of a student-initiated send with senderType student and that
\* of a counselor-initiated send with senderType counselor.
C26_RowsRecordSender ==
  Answered(200) =>
    \A h \in History(messages, response[1].req.counselorId,
                     response[1].req.studentId, FALSE) :
      \E k \in DOMAIN h.data :
        /\ h.data[k].messageID = response[1].data.messageID
        /\ h.data[k].senderType = SenderTypeOf(response[1].req.endpoint)

\* C27: History of a pair returns exactly the rows appended for that pair,
\* each once, and in the order of the sends (hello before hi).
C27_HistoryExactInSendOrder ==
  \A p \in HistoryPairs :
    \A h \in History(messages, p[1], p[2], FALSE) :
      /\ h.status = 200
      /\ {h.data[k] : k \in DOMAIN h.data}
           = {messages[r] : r \in Matching(messages, p[1], p[2])}
      /\ Len(h.data) = Cardinality(Matching(messages, p[1], p[2]))
      /\ \A i, j \in DOMAIN h.data :
           i < j => h.data[i].messageID < h.data[j].messageID

\* a is a sub-sequence of b (the elements of a are distinct)
SubSequence(a, b) ==
  /\ \A i \in DOMAIN a : \E k \in DOMAIN b : b[k] = a[i]
  /\ \A i, j \in DOMAIN a :
       i < j => \E k, l \in DOMAIN b : k < l /\ b[k] = a[i] /\ b[l] = a[j]

\* C28: stored messages are never changed or deleted: for every pair, what
\* History answers before a step is a sub-sequence of what it answers after.
C28_HistoryOnlyGrows ==
  [][\A p \in HistoryPairs :
       \A h \in History(messages, p[1], p[2], FALSE) :
         \A g \in History(messages', p[1], p[2], FALSE) :
           SubSequence(h.data, g.data)]_vars

\* C29: every registry entry points to a socket whose disconnect has not
\* been processed, and when every socket has disconnected the registry is
\* empty.
C29_EntriesPointToOpenSockets ==
  /\ \A u \in DOMAIN userSocketMap :
       /\ userSocketMap[u] \in DOMAIN sockets
       /\ sockets[userSocketMap[u]].connected
  /\ (\A i \in DOMAIN sockets : ~sockets[i].connected)
       => DOMAIN userSocketMap = {}

\* two users registered and every socket has disconnected
C29_Witness ==
  /\ \A i \in DOMAIN sockets : ~sockets[i].connected
  /\ \E i, j \in DOMAIN sockets :
       /\ SocketUserID(sockets[i]) # Undefined
       /\ SocketUserID(sockets[j]) # Undefined
       /\ SocketUserID(sockets[i]) # SocketUserID(sockets[j])

\* C30: for one send each connection receives the newMessage event of the
\* message at most once.
C30_PushAtMostOnce ==
  \A i \in DOMAIN inbox : \A k, l \in DOMAIN inbox[i] :
    k < l => inbox[i][k].messageID # inbox[i][l].messageID

\* C31: for two sends of one conversation, however their handlers interleave
\* on the database connection (existence check, insert, insert retry), a
\* connection receives the newMessage pushes in the order in which the rows
\* were committed: every push carries the id of a stored row of its pair, and
\* the ids a connection has received never descend.
C31_PushesInCommitOrder ==
  \A i \in DOMAIN inbox : \A k, l \in DOMAIN inbox[i] :
    /\ inbox[i][k].messageID \in DOMAIN messages
    /\ messages[inbox[i][k].messageID].messageID = inbox[i][k].messageID
    /\ messages[inbox[i][k].messageID].counselorID = inbox[i][k].counselorID
    /\ messages[inbox[i][k].messageID].studentID = inbox[i][k].studentID
    /\ k < l => inbox[i][k].messageID <= inbox[i][l].messageID

\* the counselor of a conversation, connected throughout, has received the
\* pushes of two of its messages, both stored by the repeated INSERT
C31_Witness ==
  /\ build = "typed"
  /\ ~hasSenderType
  /\ dbQueue = <<>>
  /\ \E i \in DOMAIN sockets :
       /\ sockets[i].connected
       /\ sockets[i].alive
       /\ \E k, l \in DOMAIN inbox[i] :
            /\ inbox[i][k].messageID < inbox[i][l].messageID
            /\ inbox[i][k].counselorID = inbox[i][l].counselorID
            /\ inbox[i][k].studentID = inbox[i][l].studentID
            /\ IsCounselorSocket(sockets[i], inbox[i][k].counselorID)

\* C32: the isOnline flag the counselor listings report for counselor c is
\* true exactly when a socket that connected as counselor c is connected.
C32_OnlineIffCounselorConnected ==
  \A c \in KnownCounselors :
    CounselorsWithStatus(userSocketMap)[c]
      <=> \E i \in DOMAIN sockets :
            /\ sockets[i].connected
            /\ sockets[i].counselorID # Undefined
            /\ ParseInt(sockets[i].counselorID) = c

\* C33: the registry and the message store are changed only by their own
\* operations: a step of a send handler (a request received, a database
\* result handled, an answer given) leaves the socket map, the role map and
\* the sockets as they were, and a step that opens or closes a socket leaves
\* the stored rows and the queued database commands as they were.
C33_RegistryAndStoreFrames ==
  [][/\ (nSends' # nSends \/ dbQueue' # dbQueue \/ messages' # messages
           \/ response' # <<>>)
          => UNCHANGED <<userSocketMap, userTypeMap, sockets, lastBroadcast>>
     /\ (NewSockets # {} \/ ClosedSockets # {}
           \/ userSocketMap' # userSocketMap \/ userTypeMap' # userTypeMap)
          => UNCHANGED <<messages, dbQueue, nSends>>]_vars

\* a user disconnected while a message was stored and another user was
\* registered
C33_Witness ==
  /\ messages # <<>>
  /\ response = <<>>
  /\ DOMAIN userSocketMap # {}
  /\ \E i \in DOMAIN sockets :
       /\ ~sockets[i].connected
       /\ SocketUserID(sockets[i]) # Undefined
       /\ SocketUserID(sockets[i]) \notin DOMAIN userSocketMap

\* two signup requests name the same email or the same studentNo
SameAccountKey(a, b) ==
  a.req.email = b.req.email \/ a.req.studentNo = b.req.studentNo

\* a signup that passed validation and was answered, not by a database
\* failure other than a duplicate key
Decided(a) == a.pc = "done" /\ a.status # 400 /\ a.error # "db"

\* C34: of two signup requests with the same email or the same studentNo,
\* however their handlers interleave, at most one creates a student row and
\* is answered 201 and the other is answered 409; no two student rows have
\* the same email or the same studentNo.
C34_OneSignupWins ==
  /\ \A r, q \in DOMAIN student :
       r # q => /\ student[r].email # student[q].email
                /\ student[r].studentNo # student[q].studentNo
  /\ \A i, j \in DOMAIN signups :
       (/\ i # j
        /\ SameAccountKey(signups[i], signups[j])
        /\ Decided(signups[i])
        /\ Decided(signups[j])
        /\ signups[i].status = 201)
         => signups[j].status = 409

\* the password is the one the hash was made of
MatchesHash(password, hash) == hash.digest = <<hash.salt, password>>

KnownEmail(email) == \E r \in DOMAIN student : student[r].email = email

\* the password is that of no account with this email
WrongPassword(email, password) ==
  \A r \in DOMAIN student :
    student[r].email = email => ~MatchesHash(password, student[r].password)

\* C35: a login is answered with success only when a student row with the
\* given email exists and the given password is the one its stored hash was
\* made of, and the answer then is that row without its password; the answer
\* to an unknown email is the same (status 401, same body) as the answer to a
\* known email with a wrong password.
C35_LoginSuccessOnlyOnMatch ==
  /\ loginAnswer # <<>> =>
       /\ loginAnswer[1].answer.status = 200 =>
            \E r \in DOMAIN student :
              /\ student[r].email = loginAnswer[1].email
              /\ MatchesHash(loginAnswer[1].password, student[r].password)
              /\ loginAnswer[1].answer.data = <<WithoutPassword(student[r])>>
              /\ "password" \notin DOMAIN loginAnswer[1].answer.data[1]
       /\ loginAnswer[1].answer.status # 200 =>
            loginAnswer[1].answer.data = <<>>
  /\ \A e1, e2 \in LoginEmails : \A p1, p2 \in Passwords :
       (~KnownEmail(e1) /\ KnownEmail(e2) /\ WrongPassword(e2, p2))
         => /\ LoginAnswer(student, e1, p1, FALSE)
                 = LoginAnswer(student, e2, p2, FALSE)
            /\ LoginAnswer(student, e1, p1, FALSE).status = 401

\* a login with the email of an account made by signup and the password of
\* another account was answered 401, while one email is still unknown
C35_Witness ==
  /\ loginAnswer # <<>>
  /\ loginAnswer[1].answer.status = 401
  /\ \E r \in DOMAIN student :
       /\ r > Len(InitialStudents)
       /\ student[r].email = loginAnswer[1].email
  /\ \E q \in DOMAIN student :
       MatchesHash(loginAnswer[1].password, student[q].password)
  /\ \E e \in LoginEmails : ~KnownEmail(e)

\* a login or signup handler ran in this step
AuthHandlerRan ==
  loginAnswer' # <<>> \/ signups' # signups \/ student' # student

InitFailures == {"connectFailed", "tableMissing", "queryFailed"}

\* C36: the server listens only after initDatabase has connected and found
\* the student table; when a step of initDatabase fails the process has
\* exited with code 1 and never listens; so a handler runs only while the
\* server listens and the database handle is set.
C36_ListensOnlyAfterInit ==
  [][/\ phase' = "listening"
          => /\ db' = "connection"
             /\ initLog' = <<"connected", "tableFound">>
             /\ exitCode' = <<>>
     /\ (\E k \in DOMAIN initLog' : initLog'[k] \in InitFailures)
          => /\ phase' = "exited"
             /\ exitCode' = <<1>>
     /\ phase = "exited" => phase' = "exited"
     /\ AuthHandlerRan
          => /\ phase = "listening"
             /\ db = "connection"]_vars

\* the connection was made, the student table was not found, and the process
\* has exited with code 1 having served nothing
C36_Witness ==
  /\ phase = "exited"
  /\ exitCode = <<1>>
  /\ db = "connection"
  /\ initLog = <<"connected", "tableMissing">>
  /\ signups = <<>>
  /\ loginAnswer = <<>>
====
